---- MODULE Spec2Model ----
(***************************************************************************)
(* A model of the two Streamlit programs of the repository:                *)
(*   src/llm_app.py  the schema-grounded SQL assistant (main and helpers)  *)
(*   src/app.py      the simple database explorer (module-level script)    *)
(*                                                                         *)
(* Texts (questions, SQL, model responses) are sequences of tokens.  The   *)
(* token Fence is the three backquotes of a code fence, "sql" and "SQL"    *)
(* are the three letters of the language tag in two casings, " " and "\n"  *)
(* are whitespace and every other token is a word character.  Python's    *)
(* None is the value None.                                                 *)
(***************************************************************************)
EXTENDS Integers, Sequences, FiniteSets, TLC

\* ------------------------------------------------------------------ bounds
MaxHist == 1        \* Run Query is not taken once query_history is this long
MaxRespLen == 7     \* longest response text handed to the extractor alone

\* ------------------------------------------------------------------- texts
Fence == "FENCE"
Whitespace == {" ", "\n"}
SqlTag == {"sql", "SQL"}
None == <<"<None>">>

\* bool(x) of a value that is None or a str
Truthy(x) == x # None /\ x # <<>>

RECURSIVE LStrip(_)
LStrip(s) == IF s # <<>> /\ Head(s) \in Whitespace THEN LStrip(Tail(s)) ELSE s

RECURSIVE RStrip(_)
RStrip(s) ==
    IF s # <<>> /\ s[Len(s)] \in Whitespace
    THEN RStrip(SubSeq(s, 1, Len(s) - 1))
    ELSE s

\* str.strip()
Strip(s) == RStrip(LStrip(s))

\* All texts over the characters cs of length at most n
TextsUpTo(cs, n) == UNION {[1..k -> cs] : k \in 0..n}

\* ------------------------------------------- extract_sql_from_response
\* Both patterns end in the same tail: greedy whitespace, a lazy group, greedy
\* whitespace, a fence.  The tail can match from position p when the text from
\* p on holds a fence.  Its group then captures the text from p to the first
\* such fence without the whitespace at either end: the leading whitespace is
\* eaten before the group, and the lazy group stops as early as whitespace and
\* a fence can follow.
FencesFrom(t, p) == {j \in p..Len(t) : t[j] = Fence}

TailMatches(t, p) == FencesFrom(t, p) # {}

TailGroup(t, p) ==
    LET j == CHOOSE x \in FencesFrom(t, p) : \A y \in FencesFrom(t, p) : x <= y
    IN  Strip(SubSeq(t, p, j - 1))

\* sql_pattern (a fence, the letters sql in any case, the tail) under
\* re.DOTALL | re.IGNORECASE: where its matches can start, and the group of
\* the match that starts at i
SqlStarts(t) ==
    {i \in 1..Len(t) : /\ t[i] = Fence
                       /\ i + 1 <= Len(t)
                       /\ t[i + 1] \in SqlTag
                       /\ TailMatches(t, i + 2)}

SqlGroup(t, i) == TailGroup(t, i + 2)

\* code_pattern (a fence, an optional greedy run of any characters, the tail)
\* under re.DOTALL: after the opening fence the greedy run, which under DOTALL
\* passes line ends, takes as much as it can and gives back only until the
\* tail matches, so the tail is matched from the largest position where it
\* can match.
CodeStarts(t) ==
    {i \in 1..Len(t) : t[i] = Fence /\ TailMatches(t, i + 1)}

CodeGreedyEnd(t, i) ==
    CHOOSE p \in (i + 1)..Len(t) :
        /\ TailMatches(t, p)
        /\ \A q \in (i + 1)..Len(t) : TailMatches(t, q) => q <= p

CodeGroup(t, i) == TailGroup(t, CodeGreedyEnd(t, i))

MinOf(S) == CHOOSE x \in S : \A y \in S : x <= y

extract_sql_from_response(response_text) ==
    IF SqlStarts(response_text) # {}
    THEN Strip(SqlGroup(response_text, MinOf(SqlStarts(response_text))))
    ELSE IF CodeStarts(response_text) # {}
    THEN Strip(CodeGroup(response_text, MinOf(CodeStarts(response_text))))
    ELSE Strip(response_text)

\* ---------------------------------------------------------------- inputs
\* The question texts a user types: empty, blank, a question followed by
\* whitespace, and a second question
Questions == {<<>>, <<" ">>, <<"a", " ">>, <<"b">>}

\* What a user types over the SQL in the editor: a blank text and a statement
SqlEdits == {<<" ">>, <<"c">>}

\* The texts the language model answers with: SQL in a fence tagged sql, SQL
\* in a fence without a tag, bare SQL, and a blank answer
Responses ==
    { <<Fence, "sql", "\n", "a", "\n", Fence>>,
      <<Fence, "\n", "a", "\n", Fence>>,
      <<"b">>,
      <<" ">> }

\* A result table is its sequence of rows: a table without rows, one with two
Tables == {<<>>, <<"row", "row">>}

\* ----------------------------------------------------------------- state
VARIABLES
    script,             \* the program this process runs: "llm_app" or "app"
    generated_sql,      \* st.session_state.generated_sql
    current_question,   \* st.session_state.current_question
    query_history,      \* st.session_state.query_history
    user_question,      \* llm_app: the text of the question text area
    sql_editor,         \* llm_app: the widget keyed sql_editor (see NoEditor)
    conn_cache,         \* llm_app: what st.cache_resource holds for
                        \*   get_db_connection: "unset", "conn" or "none"
    pc,                 \* "idle", or "llm" while main waits in
                        \*   generate_sql_with_gpt for the completion call
    user_query,         \* app: the text of the custom query text area
    user_prompt,        \* app: the text of the question text area
    last,               \* what the last script run did (see Ran)
    response_text,      \* extractor alone: the text handed to it
    extracted           \* extractor alone: what it returned, None before

vars == <<script, generated_sql, current_question, query_history,
          user_question, sql_editor, conn_cache, pc, user_query, user_prompt,
          last, response_text, extracted>>

session == <<generated_sql, current_question, query_history>>
llm_widgets == <<user_question, sql_editor>>
app_widgets == <<user_query, user_prompt>>
alone == <<response_text, extracted>>

\* What one script run did: the user action that started it, the number of
\* completion calls it made, whether it executed a statement, what went wrong
\* in that execution ("no", "connection" or "statement"), the table that came
\* back (None: no table), whether st.error showed a message, and whether an
\* exception left the script uncaught.
Ran(act, llm, executed, fault, df, error, raised) ==
    [act |-> act, llm |-> llm, executed |-> executed, fault |-> fault,
     df |-> df, error |-> error, raised |-> raised]

Quiet(act) == Ran(act, 0, FALSE, "no", None, FALSE, FALSE)

\* ------------------------------------------------------ llm_app: helpers
\* get_db_connection under st.cache_resource: the first call connects and the
\* cache keeps what it returned, a connection or None, for every later call
get_db_connection(cache, connect_ok) ==
    IF cache # "unset" THEN cache
    ELSE IF connect_ok THEN "conn" ELSE "none"

\* run_query(sql) on the connection conn, where result is the table
\* pd.read_sql_query gives for sql, or None when it raises
run_query(conn, result) ==
    IF conn = "none"
    THEN [df |-> None, fault |-> "connection", error |-> TRUE]
    ELSE IF result = None
    THEN [df |-> None, fault |-> "statement", error |-> TRUE]
    ELSE [df |-> result, fault |-> "no", error |-> FALSE]

\* A generator that answers a failed call with a stock query
generate_sql_with_gpt_Fallback(completion) ==
    IF completion = None
    THEN [sql |-> <<"a">>, error |-> TRUE]
    ELSE [sql |-> extract_sql_from_response(completion), error |-> FALSE]

\* generate_sql_with_gpt(question), where completion is the text the one
\* chat.completions.create call returns, or None when the call raises; sql is
\* the first component of the returned pair
generate_sql_with_gpt(completion) ==
    IF completion = None
    THEN [sql |-> None, error |-> TRUE]
    ELSE [sql |-> extract_sql_from_response(completion), error |-> FALSE]

\* A main that forgets line 205
ClearedSql_Kept(question) == generated_sql

\* main, lines 204-206: a question other than the recorded one drops the
\* generated SQL and the recorded question
ClearedSql(question) ==
    IF current_question # question THEN None ELSE generated_sql

ClearedQuestion(question) ==
    IF current_question # question THEN None ELSE current_question

\* A main that tests  sql_query is not None  at line 210
KeepsSql_NotNone(sql_query) == sql_query # None

\* main, line 210: the generated SQL is kept only when it is truthy
KeepsSql(sql_query) == Truthy(sql_query)

\* main, lines 220-225: the editor widget keyed sql_editor, as the value it
\* was last drawn with and the text it holds; both None while it is not on
\* the page
NoEditor == [value |-> None, text |-> None]

\* main, lines 236-240: the entry a successful run appends
HistoryEntry(df) ==
    [question |-> user_question, sql |-> sql_editor.text, rows |-> Len(df)]

\* A main without the test of line 235
AppendHistory_Always(df) ==
    Append(query_history,
           [question |-> user_question, sql |-> sql_editor.text,
            rows |-> IF df = None THEN None ELSE Len(df)])

AppendHistory(df) ==
    IF df # None THEN Append(query_history, HistoryEntry(df)) ELSE query_history

\* main, lines 215-225: what the editor can be at the end of a run that leaves
\* generated_sql at sql.  The editor is on the page only while generated_sql
\* is truthy; a widget new on the page shows value=generated_sql; a widget
\* that stays keeps its text while value is the same, and when value changes
\* it shows the new value or keeps its text, by the Streamlit version's rule
\* for a keyed widget.
EditorAfter(sql) ==
    IF ~Truthy(sql) THEN {NoEditor}
    ELSE IF sql_editor = NoEditor THEN {[value |-> sql, text |-> sql]}
    ELSE IF sql_editor.value = sql THEN {sql_editor}
    ELSE {[value |-> sql, text |-> sql],
          [value |-> sql, text |-> sql_editor.text]}

\* ------------------------------------------------------ llm_app: actions
\* The user changes the question text; the run finds no button pressed.
EditQuestion(q) ==
    /\ script = "llm_app" /\ pc = "idle"
    /\ q # user_question
    /\ user_question' = q
    /\ last' = Quiet("edit_question")
    /\ UNCHANGED <<script, session, sql_editor, conn_cache, pc, app_widgets, alone>>

\* Generate SQL is pressed (main, lines 202-209, up to the completion call).
\* An empty question text ends the run at line 202.
ClickGenerate ==
    /\ script = "llm_app" /\ pc = "idle"
    /\ IF Truthy(user_question)
       THEN /\ generated_sql' = ClearedSql(Strip(user_question))
            /\ current_question' = ClearedQuestion(Strip(user_question))
            /\ pc' = "llm"
            /\ last' = Ran("generate", 1, FALSE, "no", None, FALSE, FALSE)
       ELSE /\ UNCHANGED <<generated_sql, current_question, pc>>
            /\ last' = Quiet("generate")
    /\ UNCHANGED <<script, query_history, llm_widgets, conn_cache, app_widgets, alone>>

\* The completion call returns or raises (main, lines 209-225): the run ends.
CompletionReturns(completion) ==
    /\ script = "llm_app" /\ pc = "llm"
    /\ LET r == generate_sql_with_gpt(completion)
           question == Strip(user_question)
       IN  /\ IF KeepsSql(r.sql)
              THEN /\ generated_sql' = r.sql
                   /\ current_question' = question
              ELSE UNCHANGED <<generated_sql, current_question>>
           /\ last' = [last EXCEPT !.error = r.error]
    /\ sql_editor' \in EditorAfter(generated_sql')
    /\ pc' = "idle"
    /\ UNCHANGED <<script, query_history, user_question, conn_cache, app_widgets, alone>>

\* Clear History is pressed: main reads the button into clear_button (line
\* 199) and never looks at it.
ClickClear ==
    /\ script = "llm_app" /\ pc = "idle"
    /\ last' = Quiet("clear")
    /\ UNCHANGED <<script, session, llm_widgets, conn_cache, pc, app_widgets, alone>>

\* The user changes the text of the editor; the run finds no button pressed.
EditSql(s) ==
    /\ script = "llm_app" /\ pc = "idle"
    /\ sql_editor # NoEditor
    /\ s # sql_editor.text
    /\ sql_editor' = [sql_editor EXCEPT !.text = s]
    /\ last' = Quiet("edit_sql")
    /\ UNCHANGED <<script, session, user_question, conn_cache, pc, app_widgets, alone>>

\* Run Query is pressed (main, lines 231-245); the button is on the page with
\* the editor.  connect_ok and result are what the database does: whether
\* sqlite3.connect succeeds and what pd.read_sql_query gives (None: it raises).
ClickRun(connect_ok, result) ==
    /\ script = "llm_app" /\ pc = "idle"
    /\ sql_editor # NoEditor
    /\ Len(query_history) < MaxHist
    /\ IF Strip(sql_editor.text) # <<>>
       THEN LET conn == get_db_connection(conn_cache, connect_ok)
                r == run_query(conn, result)
            IN  /\ conn_cache' = conn
                /\ query_history' = AppendHistory(r.df)
                /\ last' = Ran("run", 0, TRUE, r.fault, r.df, r.error, FALSE)
       ELSE /\ UNCHANGED <<conn_cache, query_history>>
            /\ last' = Quiet("run")
    /\ UNCHANGED <<script, generated_sql, current_question, llm_widgets, pc,
                   app_widgets, alone>>

\* ---------------------------------------------------------- app: helpers
\* query_db(sql_query): sqlite3.connect stands before the try, so its failure
\* leaves the function as an exception; a statement that fails gives an empty
\* DataFrame and a message
query_db(connect_ok, result) ==
    IF ~connect_ok
    THEN [df |-> None, fault |-> "connection", error |-> FALSE, raised |-> TRUE]
    ELSE IF result = None
    THEN [df |-> <<>>, fault |-> "statement", error |-> TRUE, raised |-> FALSE]
    ELSE [df |-> result, fault |-> "no", error |-> FALSE, raised |-> FALSE]

\* ask_openai(prompt): the completion text as it is; nothing catches a call
\* that raises
ask_openai(completion) ==
    IF completion = None
    THEN [text |-> None, raised |-> TRUE]
    ELSE [text |-> completion, raised |-> FALSE]

\* The script above its two forms (lines 34-63) raises when the database
\* cannot be opened (line 37) and when the lab count statement fails: line 63
\* indexes the empty DataFrame by a column it does not have
PreambleRaises(connect_ok, labs) == ~connect_ok \/ labs = None

\* ---------------------------------------------------------- app: actions
\* Run Query is pressed with q in the custom query area (lines 66-71)
AppRunQuery(q, pre_ok, labs, connect_ok, result) ==
    /\ script = "app"
    /\ user_query' = q
    /\ last' = IF PreambleRaises(pre_ok, labs)
               THEN Ran("app_run", 0, FALSE, "no", None, FALSE, TRUE)
               ELSE IF Strip(q) # <<>>
               THEN LET r == query_db(connect_ok, result)
                    IN  Ran("app_run", 0, TRUE, r.fault, r.df, r.error, r.raised)
               ELSE Quiet("app_run")
    /\ UNCHANGED <<script, session, llm_widgets, conn_cache, pc, user_prompt, alone>>

\* Ask AI is pressed with q in the question area (lines 74-86)
AppAskAI(q, pre_ok, labs, completion, connect_ok, result) ==
    /\ script = "app"
    /\ user_prompt' = q
    /\ last' = IF PreambleRaises(pre_ok, labs)
               THEN Ran("app_ask", 0, FALSE, "no", None, FALSE, TRUE)
               ELSE IF Strip(q) # <<>>
               THEN LET a == ask_openai(completion)
                        r == query_db(connect_ok, result)
                    IN  IF a.raised
                        THEN Ran("app_ask", 1, FALSE, "no", None, FALSE, TRUE)
                        ELSE Ran("app_ask", 1, TRUE, r.fault, r.df, r.error, r.raised)
               ELSE Quiet("app_ask")
    /\ UNCHANGED <<script, session, llm_widgets, conn_cache, pc, user_query, alone>>

\* ------------------------------------------------------- specification
Init ==
    /\ script \in {"llm_app", "app"}
    /\ generated_sql = None
    /\ current_question = None
    /\ query_history = <<>>
    /\ user_question = <<>>
    /\ sql_editor = NoEditor
    /\ conn_cache = "unset"
    /\ pc = "idle"
    /\ user_query = <<>>
    /\ user_prompt = <<>>
    /\ last = Quiet("start")
    /\ response_text = <<>>
    /\ extracted = None

Completions == Responses \cup {None}
Results == Tables \cup {None}

Next ==
    \/ \E q \in Questions : EditQuestion(q)
    \/ ClickGenerate
    \/ \E c \in Completions : CompletionReturns(c)
    \/ ClickClear
    \/ \E s \in SqlEdits : EditSql(s)
    \/ \E ok \in BOOLEAN, r \in Results : ClickRun(ok, r)
    \/ \E q \in Questions, pre \in BOOLEAN, labs \in Results,
          ok \in BOOLEAN, r \in Results :
          AppRunQuery(q, pre, labs, ok, r)
    \/ \E q \in Questions, pre \in BOOLEAN, labs \in Results,
          c \in Completions, ok \in BOOLEAN, r \in Results :
          AppAskAI(q, pre, labs, c, ok, r)

Spec == Init /\ [][Next]_vars

\* --------------------------------------------- the extractor on its own
Alphabet == {Fence, "sql", "SQL", " ", "a"}

InitExtract ==
    /\ script = "extract"
    /\ generated_sql = None
    /\ current_question = None
    /\ query_history = <<>>
    /\ user_question = <<>>
    /\ sql_editor = NoEditor
    /\ conn_cache = "unset"
    /\ pc = "idle"
    /\ user_query = <<>>
    /\ user_prompt = <<>>
    /\ last = Quiet("start")
    /\ response_text \in TextsUpTo(Alphabet, MaxRespLen)
    /\ extracted = None

Extract ==
    /\ script = "extract"
    /\ extracted = None
    /\ extracted' = extract_sql_from_response(response_text)
    /\ UNCHANGED <<script, session, llm_widgets, conn_cache, pc, app_widgets,
                   last, response_text>>

NextExtract == Extract

SpecExtract == InitExtract /\ [][NextExtract]_vars

C2_StaleSqlClearedBeforeGeneration ==
    (last.act = "generate" /\ last.llm = 1) =>
        \/ generated_sql = None /\ current_question = None
        \/ current_question = Strip(user_question) /\ generated_sql # None

\* The generator is being called for a new question while the editor still
\* shows the SQL of the question before
C2_Witness ==
    /\ pc = "llm"
    /\ sql_editor # NoEditor
    /\ generated_sql = None /\ current_question = None

\* C3: after Clear History is handled, query_history is empty.
C3_ClearHistoryEmptiesHistory ==
    last.act = "clear" => query_history = <<>>

\* C4: a generate action (Generate SQL of llm_app, Ask AI of app) calls the
\* language model only if its question text is non-empty after trimming.
C4_BlankQuestionNeverReachesModel ==
    last.llm > 0 =>
        Strip(IF script = "app" THEN user_prompt ELSE user_question) # <<>>

\* What C5 and C6 call a fenced block: the fences of a text pair up in order,
\* the first with the second, the third with the fourth; a block's tag is the
\* word that follows its opening fence at once (empty when whitespace or the
\* closing fence follows), its content the rest up to its closing fence.
FencesBefore(t, i) == Cardinality({j \in 1..(i - 1) : t[j] = Fence})

BlockOpens(t) ==
    {i \in 1..Len(t) : /\ t[i] = Fence
                       /\ FencesBefore(t, i) % 2 = 0
                       /\ FencesFrom(t, i + 1) # {}}

BlockClose(t, i) == MinOf(FencesFrom(t, i + 1))

BlockTagLen(t, i) ==
    MinOf({n \in 0..(BlockClose(t, i) - i - 1) :
              t[i + 1 + n] \in Whitespace \cup {Fence}})

BlockTag(t, i) == SubSeq(t, i + 1, i + BlockTagLen(t, i))

BlockContent(t, i) ==
    Strip(SubSeq(t, i + 1 + BlockTagLen(t, i), BlockClose(t, i) - 1))

SqlBlocks(t) == {i \in BlockOpens(t) : BlockTag(t, i) \in {<<"sql">>, <<"SQL">>}}

\* C5: for a text without a block tagged sql and with a fenced block, the
\* extractor returns the trimmed content of the first fenced block.
C5_FirstGenericBlockIsReturned ==
    (extracted # None /\ SqlBlocks(response_text) = {}
                      /\ BlockOpens(response_text) # {}) =>
        extracted = BlockContent(response_text, MinOf(BlockOpens(response_text)))

\* C6: for a text with a block tagged sql, in either case, the extractor
\* returns the trimmed content of the first such block, whatever other blocks
\* the text holds and wherever they stand.
C6_FirstSqlBlockIsReturned ==
    (extracted # None /\ SqlBlocks(response_text) # {}) =>
        extracted = BlockContent(response_text, MinOf(SqlBlocks(response_text)))

\* C7: an execution that fails, by the connection or by the statement, gives
\* no table (None from run_query, an empty table from query_db), shows a
\* message, raises nothing, and leaves the session ready for the next action.
C7_FailedExecutionIsReportedNotRaised ==
    (last.executed /\ last.fault # "no") =>
        /\ ~last.raised
        /\ last.error
        /\ last.df = (IF script = "app" THEN <<>> ELSE None)
        /\ pc = "idle"

\* C8: a Generate SQL action makes one completion call and no second one, and
\* a call that fails produces no SQL: the action leaves generated_sql and
\* current_question both unset when the question is not the recorded one, and
\* both as they were when it is.
C8_FailedGenerationProducesNoSql ==
    [][/\ (pc = "idle" /\ pc' = "llm") =>
            /\ last'.llm = 1
            /\ IF current_question = Strip(user_question)
               THEN UNCHANGED <<generated_sql, current_question>>
               ELSE generated_sql' = None /\ current_question' = None
       /\ pc = "llm" => (pc' = "idle" /\ last'.llm = 1)
       /\ (pc = "llm" /\ last'.error) =>
            UNCHANGED <<generated_sql, current_question>>]_vars

\* A generation for a new question failed after an earlier one had succeeded
\* and its SQL had been run
C8_Witness ==
    /\ pc = "idle"
    /\ last.act = "generate" /\ last.llm = 1 /\ last.error
    /\ generated_sql = None /\ current_question = None
    /\ query_history # <<>>

\* C9: the entry a successful Run Query appends carries the session's
\* current_question.
C9_EntryQuestionIsCurrentQuestion ==
    (last.act = "run" /\ last.df # None) =>
        query_history[Len(query_history)].question = current_question

\* C10: after every completed action generated_sql and current_question are
\* both None or both set, and a set generated_sql is not the empty text.
C10_SqlAndQuestionSetTogether ==
    pc = "idle" =>
        /\ generated_sql = None <=> current_question = None
        /\ generated_sql # None => generated_sql # <<>>

\* SQL was generated for a blank question: current_question is set, and empty
C10_Witness ==
    /\ pc = "idle"
    /\ last.act = "generate"
    /\ generated_sql # None
    /\ current_question = <<>>

====
